---------------------------- MODULE Spec2Model ----------------------------
(***************************************************************************)
(* Landslide susceptibility script (Google Earth Engine, JavaScript).      *)
(*                                                                         *)
(* The model follows one pixel of the rasters through run(aoi): clipping   *)
(* of the source layers, the where-chain reclassifications, the weighted   *)
(* overlay in IEEE-754 double arithmetic, the normalisation, the           *)
(* classification, and the list of layers held by the map.                 *)
(*                                                                         *)
(* Continuous raster values (slope, roughness, distances) are fixed-point  *)
(* integers in units of 1/Scale.  Weights, the weighted sum, maxPossible   *)
(* and susceptibility are binary64 values, computed with round-to-nearest- *)
(* even exactly as JavaScript numbers and Earth Engine double images are.  *)
(***************************************************************************)
EXTENDS Integers, Sequences, FiniteSets

(***************************************************************************)
(* Natural numbers of arbitrary size: little-endian sequences of limbs in  *)
(* base 2^15, without leading zero limbs (<<>> is zero).                   *)
(***************************************************************************)
LimbBits == 15

RECURSIVE Pow2(_)
Pow2(n) == IF n = 0 THEN 1 ELSE 2 * Pow2(n - 1)

Base == Pow2(LimbBits)

RECURSIVE BigTrim(_)
BigTrim(a) ==
  IF a = <<>> THEN <<>>
  ELSE IF a[Len(a)] = 0 THEN BigTrim(SubSeq(a, 1, Len(a) - 1))
  ELSE a

RECURSIVE BigFromNat(_)
BigFromNat(n) ==
  IF n = 0 THEN <<>> ELSE <<n % Base>> \o BigFromNat(n \div Base)

Limb(a, i) == IF i <= Len(a) THEN a[i] ELSE 0

RECURSIVE BigAddC(_, _, _, _)
BigAddC(a, b, i, carry) ==
  IF i > Len(a) /\ i > Len(b)
  THEN (IF carry = 0 THEN <<>> ELSE <<carry>>)
  ELSE LET s == Limb(a, i) + Limb(b, i) + carry
       IN  <<s % Base>> \o BigAddC(a, b, i + 1, s \div Base)

BigAdd(a, b) == BigAddC(a, b, 1, 0)

\* a - b for a >= b
RECURSIVE BigSubC(_, _, _, _)
BigSubC(a, b, i, borrow) ==
  IF i > Len(a) THEN <<>>
  ELSE LET d == Limb(a, i) - Limb(b, i) - borrow
       IN  IF d < 0
           THEN <<d + Base>> \o BigSubC(a, b, i + 1, 1)
           ELSE <<d>> \o BigSubC(a, b, i + 1, 0)

BigSub(a, b) == BigTrim(BigSubC(a, b, 1, 0))

\* -1, 0, 1 as a < b, a = b, a > b
RECURSIVE BigCmpAt(_, _, _)
BigCmpAt(a, b, i) ==
  IF i = 0 THEN 0
  ELSE IF a[i] < b[i] THEN -1
  ELSE IF a[i] > b[i] THEN 1
  ELSE BigCmpAt(a, b, i - 1)

BigCmp(a, b) ==
  IF Len(a) < Len(b) THEN -1
  ELSE IF Len(a) > Len(b) THEN 1
  ELSE BigCmpAt(a, b, Len(a))

\* a * k for 0 <= k <= Base
RECURSIVE BigMulC(_, _, _, _)
BigMulC(a, k, i, carry) ==
  IF i > Len(a)
  THEN (IF carry = 0 THEN <<>> ELSE <<carry>>)
  ELSE LET p == a[i] * k + carry
       IN  <<p % Base>> \o BigMulC(a, k, i + 1, p \div Base)

BigMulSmall(a, k) == IF k = 0 THEN <<>> ELSE BigMulC(a, k, 1, 0)

RECURSIVE Zeros(_)
Zeros(n) == IF n = 0 THEN <<>> ELSE <<0>> \o Zeros(n - 1)

\* a * 2^n
BigShl(a, n) ==
  IF a = <<>> THEN <<>>
  ELSE Zeros(n \div LimbBits) \o BigMulSmall(a, Pow2(n % LimbBits))

\* floor(a / 2^n)
BigShr(a, n) ==
  LET q == n \div LimbBits
      r == n % LimbBits
      d == IF q >= Len(a) THEN <<>> ELSE SubSeq(a, q + 1, Len(a))
  IN  BigTrim([i \in 1..Len(d) |->
                 (d[i] \div Pow2(r)) + (Limb(d, i + 1) % Pow2(r)) * Pow2(LimbBits - r)])

RECURSIVE NatBits(_)
NatBits(n) == IF n = 0 THEN 0 ELSE 1 + NatBits(n \div 2)

BigBitLen(a) ==
  IF a = <<>> THEN 0 ELSE LimbBits * (Len(a) - 1) + NatBits(a[Len(a)])

BigOdd(a) == a # <<>> /\ a[1] % 2 = 1

(***************************************************************************)
(* IEEE-754 binary64 values: sgn * m * 2^e with m a 53-bit natural         *)
(* (2^52 <= m < 2^53), or sgn = 0 for zero.  Exponents stay far from the   *)
(* subnormal and overflow ranges for every value the script computes.      *)
(***************************************************************************)
Precision == 53

FZero == [sgn |-> 0, m |-> <<>>, e |-> 0]

\* the binary64 nearest to sgn * n * 2^e, ties to even
FRound(sgn, n, e) ==
  LET len == BigBitLen(n) IN
  IF n = <<>> \/ sgn = 0 THEN FZero
  ELSE IF len <= Precision
  THEN [sgn |-> sgn, m |-> BigShl(n, Precision - len), e |-> e - (Precision - len)]
  ELSE LET t    == len - Precision
           q    == BigShr(n, t)
           r    == BigSub(n, BigShl(q, t))
           half == BigShl(<<1>>, t - 1)
           c    == BigCmp(r, half)
           up   == c > 0 \/ (c = 0 /\ BigOdd(q))
           q2   == IF up THEN BigAdd(q, <<1>>) ELSE q
       IN  IF BigBitLen(q2) > Precision
           THEN [sgn |-> sgn, m |-> BigShr(q2, 1), e |-> e + t + 1]
           ELSE [sgn |-> sgn, m |-> q2, e |-> e + t]

FFromInt(k) ==
  IF k = 0 THEN FZero
  ELSE IF k < 0 THEN FRound(-1, BigFromNat(-k), 0)
  ELSE FRound(1, BigFromNat(k), 0)

\* x + y, correctly rounded
FAdd(x, y) ==
  IF x.sgn = 0 THEN y
  ELSE IF y.sgn = 0 THEN x
  ELSE LET emin == IF x.e < y.e THEN x.e ELSE y.e
           a    == BigShl(x.m, x.e - emin)
           b    == BigShl(y.m, y.e - emin)
           c    == BigCmp(a, b)
       IN  IF x.sgn = y.sgn THEN FRound(x.sgn, BigAdd(a, b), emin)
           ELSE IF c = 0 THEN FZero
           ELSE IF c > 0 THEN FRound(x.sgn, BigSub(a, b), emin)
           ELSE FRound(y.sgn, BigSub(b, a), emin)

\* x * y, correctly rounded, for an integer-valued y = k with |k| <= Base
FMulInt(x, k) ==
  IF k = 0 \/ x.sgn = 0 THEN FZero
  ELSE IF k < 0 THEN FRound(-x.sgn, BigMulSmall(x.m, -k), x.e)
  ELSE FRound(x.sgn, BigMulSmall(x.m, k), x.e)

\* the largest q in lo..hi with q * d <= r (lo * d <= r is given)
RECURSIVE BigDigit(_, _, _, _)
BigDigit(r, d, lo, hi) ==
  IF lo = hi THEN lo
  ELSE LET mid == (lo + hi + 1) \div 2
       IN  IF BigCmp(BigMulSmall(d, mid), r) <= 0
           THEN BigDigit(r, d, mid, hi)
           ELSE BigDigit(r, d, lo, mid - 1)

\* long division in base 2^15: <<quotient, remainder>> of (r * Base^k) / d
\* for r < d, the quotient's k limbs little-endian
RECURSIVE BigFrac(_, _, _)
BigFrac(r, d, k) ==
  IF k = 0 THEN <<<<>>, r>>
  ELSE LET r2   == IF r = <<>> THEN <<>> ELSE <<0>> \o r
           dig  == BigDigit(r2, d, 0, Base - 1)
           rest == BigFrac(BigSub(r2, BigMulSmall(d, dig)), d, k - 1)
       IN  <<Append(rest[1], dig), rest[2]>>

FracLimbs == 4

\* x / y, correctly rounded, for y # 0
FDivNZ(x, y) ==
  IF x.sgn = 0 THEN FZero
  ELSE LET ge == BigCmp(x.m, y.m) >= 0
           r0 == IF ge THEN BigSub(x.m, y.m) ELSE x.m
           qr == BigFrac(r0, y.m, FracLimbs)
           q  == BigTrim(qr[1] \o (IF ge THEN <<1>> ELSE <<>>))
           n  == BigAdd(BigMulSmall(q, 2), IF qr[2] = <<>> THEN <<>> ELSE <<1>>)
       IN  FRound(x.sgn * y.sgn, n, x.e - y.e - FracLimbs * LimbBits - 1)

\* -1, 0, 1 as x < y, x = y, x > y
FCmpMag(x, y) ==
  IF x.e < y.e THEN -1
  ELSE IF x.e > y.e THEN 1
  ELSE BigCmp(x.m, y.m)

FCmp(x, y) ==
  IF x.sgn # y.sgn THEN (IF x.sgn < y.sgn THEN -1 ELSE 1)
  ELSE IF x.sgn = 0 THEN 0
  ELSE x.sgn * FCmpMag(x, y)

FLe(x, y) == FCmp(x, y) <= 0
FGt(x, y) == FCmp(x, y) > 0

\* a decimal literal n / 10^k read as a binary64 (nearest value)
RECURSIVE Pow10(_)
Pow10(k) == IF k = 0 THEN 1 ELSE 10 * Pow10(k - 1)

FLiteral(n, k) == FDivNZ(FFromInt(n), FFromInt(Pow10(k)))

(***************************************************************************)
(* One pixel of an Earth Engine image: a value, or masked.                 *)
(***************************************************************************)
Masked == [ok |-> FALSE, v |-> 0]

Img(v) == [ok |-> TRUE, v |-> v]

Bool(b) == IF b THEN 1 ELSE 0

Clip(img, inside) == IF inside THEN img ELSE Masked

Unmask(img, v) == IF img.ok THEN img ELSE Img(v)

\* lt in place of lte: a value on the breakpoint meets no condition
Lt(img, c) == IF img.ok THEN Img(Bool(img.v < c)) ELSE Masked

Lte(img, c) == IF img.ok THEN Img(Bool(img.v <= c)) ELSE Masked

\* gte in place of gt: a value on the breakpoint meets two conditions
Gte(img, c) == IF img.ok THEN Img(Bool(img.v >= c)) ELSE Masked

Gt(img, c) == IF img.ok THEN Img(Bool(img.v > c)) ELSE Masked

Eq(img, c) == IF img.ok THEN Img(Bool(img.v = c)) ELSE Masked

And(a, b) == IF a.ok /\ b.ok THEN Img(Bool(a.v # 0 /\ b.v # 0)) ELSE Masked

\* Image.where: the value where test is nonzero; the input pixel where test
\* is zero or masked; nothing is done where the input is masked
Where(input, test, value) ==
  IF input.ok /\ test.ok /\ test.v # 0 THEN Img(value) ELSE input

Rule(test, value) == [test |-> test, value |-> value]

RECURSIVE WhereChain(_, _)
WhereChain(img, rules) ==
  IF rules = <<>> THEN img
  ELSE WhereChain(Where(img, Head(rules).test, Head(rules).value), Tail(rules))

\* double images
\* lt in place of lte on the susceptibility
LtD(img, c) == IF img.ok THEN Img(Bool(FCmp(img.v, c) < 0)) ELSE Masked

LteD(img, c) == IF img.ok THEN Img(Bool(FLe(img.v, c))) ELSE Masked

GtD(img, c) == IF img.ok THEN Img(Bool(FGt(img.v, c))) ELSE Masked

\* integer image times a double constant
Multiply(img, w) == IF img.ok THEN Img(FMulInt(w, img.v)) ELSE Masked

Add(a, b) == IF a.ok /\ b.ok THEN Img(FAdd(a.v, b.v)) ELSE Masked

\* Image.divide returns 0 for division by 0
Divide(img, c) ==
  IF img.ok THEN Img(IF c.sgn = 0 THEN FZero ELSE FDivNZ(img.v, c)) ELSE Masked

(***************************************************************************)
(* Fixed-point raster values and the sampled inputs.                       *)
(***************************************************************************)
Scale == 3

Spread == 1

MaxShapes == 1

MaxRuns == 2

Fx(n) == n * Scale

PixelSize == 30

SlopeBreaks == {5, 15, 25, 35}

RoughBreaks == {1, 3, 6, 12}

DistBreaks == {50, 100, 250, 500}

Abs(n) == IF n < 0 THEN -n ELSE n

Near(breaks) ==
  {v \in 0..Fx(600) : \E t \in breaks : Abs(v - Fx(t)) <= Spread}

SlopeSamples == Near(SlopeBreaks) \cup {0, Fx(60)}

RoughSamples == Near(RoughBreaks) \cup {0, Fx(20)}

\* distance-transform outputs (1/Scale pixels) of a pixel that is not itself
\* a feature: at least one pixel away
NbSamples ==
  {n \in Scale..Fx(20) :
     \/ \E t \in DistBreaks : Abs(n * PixelSize - Fx(t)) <= Spread * PixelSize
     \/ n \in {Scale, Fx(20)}}

\* ESA WorldCover v200 'Map' band class values
LandCoverCodes == {10, 20, 30, 40, 50, 60, 70, 80, 90, 95, 100}

(***************************************************************************)
(* The where-chains of run(), as the rule lists they apply in order.       *)
(***************************************************************************)
LcRules(worldCover) ==
  << Rule(Eq(worldCover, 10), 1),
     Rule(Eq(worldCover, 20), 3),
     Rule(Eq(worldCover, 30), 3),
     Rule(Eq(worldCover, 40), 3),
     Rule(Eq(worldCover, 50), 4),
     Rule(Eq(worldCover, 60), 5),
     Rule(Eq(worldCover, 70), 1),
     Rule(Eq(worldCover, 80), 1),
     Rule(Eq(worldCover, 90), 2),
     Rule(Eq(worldCover, 100), 2) >>

SlopeRules(slope) ==
  << Rule(Lte(slope, Fx(5)), 1),
     Rule(And(Gt(slope, Fx(5)), Lte(slope, Fx(15))), 2),
     Rule(And(Gt(slope, Fx(15)), Lte(slope, Fx(25))), 3),
     Rule(And(Gt(slope, Fx(25)), Lte(slope, Fx(35))), 4),
     Rule(Gt(slope, Fx(35)), 5) >>

RoughRules(roughness) ==
  << Rule(Lte(roughness, Fx(1)), 1),
     Rule(And(Gt(roughness, Fx(1)), Lte(roughness, Fx(3))), 2),
     Rule(And(Gt(roughness, Fx(3)), Lte(roughness, Fx(6))), 3),
     Rule(And(Gt(roughness, Fx(6)), Lte(roughness, Fx(12))), 4),
     Rule(Gt(roughness, Fx(12)), 5) >>

DistWaterRules(dtWater) ==
  << Rule(Lte(dtWater, Fx(50)), 5),
     Rule(And(Gt(dtWater, Fx(50)), Lte(dtWater, Fx(100))), 4),
     Rule(And(Gt(dtWater, Fx(100)), Lte(dtWater, Fx(250))), 3),
     Rule(And(Gt(dtWater, Fx(250)), Lte(dtWater, Fx(500))), 2),
     Rule(Gt(dtWater, Fx(500)), 1) >>

\* the road table with its second breakpoint mistyped
DistRoadRulesShifted(dtRoad) ==
  << Rule(Lte(dtRoad, Fx(50)), 5),
     Rule(And(Gt(dtRoad, Fx(50)), Lte(dtRoad, Fx(150))), 4),
     Rule(And(Gt(dtRoad, Fx(150)), Lte(dtRoad, Fx(250))), 3),
     Rule(And(Gt(dtRoad, Fx(250)), Lte(dtRoad, Fx(500))), 2),
     Rule(Gt(dtRoad, Fx(500)), 1) >>

DistRoadRules(dtRoad) ==
  << Rule(Lte(dtRoad, Fx(50)), 5),
     Rule(And(Gt(dtRoad, Fx(50)), Lte(dtRoad, Fx(100))), 4),
     Rule(And(Gt(dtRoad, Fx(100)), Lte(dtRoad, Fx(250))), 3),
     Rule(And(Gt(dtRoad, Fx(250)), Lte(dtRoad, Fx(500))), 2),
     Rule(Gt(dtRoad, Fx(500)), 1) >>

D02 == FLiteral(2, 1)
D04 == FLiteral(4, 1)
D06 == FLiteral(6, 1)
D08 == FLiteral(8, 1)

SusClassRules(susceptibility) ==
  << Rule(LteD(susceptibility, D02), 1),
     Rule(And(GtD(susceptibility, D02), LteD(susceptibility, D04)), 2),
     Rule(And(GtD(susceptibility, D04), LteD(susceptibility, D06)), 3),
     Rule(And(GtD(susceptibility, D06), LteD(susceptibility, D08)), 4),
     Rule(GtD(susceptibility, D08), 5) >>

(***************************************************************************)
(* Source layers at the pixel.  p is the pixel's content in the datasets,  *)
(* inside tells whether the pixel lies in the buffered AOI.                *)
(***************************************************************************)
\* ee.Terrain.slope / reduceNeighborhood: a value where the DEM has one
Derived(dem, v) == IF dem.ok THEN Img(v) ELSE Masked

\* fastDistanceTransform: 0 on a nonzero pixel, else the distance to the
\* nearest one; valued whatever the input's mask
FastDistanceTransform(binary, nb) ==
  IF binary.ok /\ binary.v # 0 THEN Img(0) ELSE Img(nb)

MultiplyInt(img, k) == IF img.ok THEN Img(img.v * k) ELSE Masked

\* the source layers and the rasters derived from them, at the pixel
Sources(p, inside) ==
  LET dem         == Clip(IF p.demOk THEN Img(p.elev) ELSE Masked, inside)
      worldCover  == Clip(IF p.lcOk THEN Img(p.lc) ELSE Masked, inside)
      gsw         == Clip(IF p.gswOk THEN Img(p.occ) ELSE Masked, inside)
      waterMask   == Gt(gsw, 10)
      waterBinary == Unmask(waterMask, 0)
      roadsRaster == Img(Bool(p.road))
  IN  [dem        |-> dem,
       slope      |-> Derived(dem, p.slope),
       roughness  |-> Derived(dem, p.rough),
       worldCover |-> worldCover,
       gsw        |-> gsw,
       waterMask  |-> waterMask,
       dtWater    |-> MultiplyInt(FastDistanceTransform(waterBinary, p.nbWater), PixelSize),
       dtRoad     |-> MultiplyInt(FastDistanceTransform(roadsRaster, p.nbRoad), PixelSize)]

\* the five ordinal score rasters
Scores(s) ==
  [lcScore        |-> WhereChain(Img(0), LcRules(s.worldCover)),
   slopeScore     |-> WhereChain(Img(0), SlopeRules(s.slope)),
   roughScore     |-> WhereChain(Img(0), RoughRules(s.roughness)),
   distWaterScore |-> WhereChain(Img(0), DistWaterRules(s.dtWater)),
   distRoadScore  |-> WhereChain(Img(0), DistRoadRules(s.dtRoad))]

Weighted(w, sc) ==
  Add(Add(Add(Add(Multiply(sc.slopeScore, w.slope),
                  Multiply(sc.roughScore, w.roughness)),
              Multiply(sc.lcScore, w.landcover)),
          Multiply(sc.distWaterScore, w.distWater)),
      Multiply(sc.distRoadScore, w.distRoad))

MaxPossible(w) ==
  FMulInt(FAdd(FAdd(FAdd(FAdd(w.slope, w.roughness), w.landcover),
                    w.distWater), w.distRoad), 5)

SusClass(sus) == WhereChain(Img(0), SusClassRules(sus))

\* the names run() gives map.addLayer, in call order
RunLayers ==
  << "AOI", "DEM (SRTM)", "Slope (deg)", "Roughness (m)", "WorldCover",
     "Landcover score", "Water mask (occurrence>10%)", "Distance to water (m)",
     "Roads (TIGER)", "Distance to roads (m)", "Slope score (1..5)",
     "Roughness score (1..5)", "Dist to water score", "Dist to road score",
     "Susceptibility (0-1)", "Susceptibility class" >>

(***************************************************************************)
(* Settings, the pixels followed and the weight vectors tried.             *)
(***************************************************************************)
useDrawnAOI == FALSE

\* weights in hundredths, as the decimal literals of the settings block
WeightsOf(h) ==
  [slope     |-> FLiteral(h[1], 2),
   roughness |-> FLiteral(h[2], 2),
   landcover |-> FLiteral(h[3], 2),
   distWater |-> FLiteral(h[4], 2),
   distRoad  |-> FLiteral(h[5], 2)]

DefaultWeights == <<45, 15, 20, 10, 10>>

WeightChoices ==
  { DefaultWeights,
    <<0, 0, 0, 0, 0>>,
    <<5, 5, 10, 70, 10>>,
    <<30, 30, 20, 10, 10>>,
    <<0, 0, 20, 5, 5>>,
    <<100, 100, 100, 100, 100>>,
    <<200, 0, 0, 0, 50>>,
    <<-45, 15, 20, 10, 10>> }

WeightTable == [h \in WeightChoices |-> WeightsOf(h)]

\* slope 10 deg, roughness 2 m, shrubland, 300 m to water, 60 m to a road
BasePixel ==
  [demOk |-> TRUE, elev |-> 800, slope |-> Fx(10), rough |-> Fx(2),
   lcOk |-> TRUE, lc |-> 20, gswOk |-> TRUE, occ |-> 0, nbWater |-> Fx(10),
   road |-> FALSE, nbRoad |-> Fx(2), inDefault |-> TRUE, inDrawn |-> TRUE]

\* a pixel whose five predictors all fall in the class scored s
UniformPixel(s) ==
  [BasePixel EXCEPT
     !.slope   = Fx(<<5, 10, 20, 30, 40>>[s]),
     !.rough   = Fx(<<1, 2, 5, 10, 20>>[s]),
     !.lc      = <<10, 90, 20, 50, 60>>[s],
     !.occ     = <<0, 0, 0, 0, 100>>[s],
     !.nbWater = Fx(<<20, 10, 5, 2, 1>>[s]),
     !.road    = (s = 5),
     !.nbRoad  = Fx(<<20, 10, 5, 2, 1>>[s])]

UniformPixels == {UniformPixel(s) : s \in 1..5}

GapPixels ==
  { [BasePixel EXCEPT !.demOk = FALSE],
    [BasePixel EXCEPT !.lcOk = FALSE],
    [BasePixel EXCEPT !.gswOk = FALSE],
    [BasePixel EXCEPT !.inDefault = FALSE],
    [BasePixel EXCEPT !.inDrawn = FALSE] }

CorePixels == UniformPixels \cup GapPixels \cup {BasePixel}

Pixels ==
  CorePixels
  \cup {[BasePixel EXCEPT !.slope = v] : v \in SlopeSamples}
  \cup {[BasePixel EXCEPT !.rough = v] : v \in RoughSamples}
  \cup {[BasePixel EXCEPT !.lc = c] : c \in LandCoverCodes}
  \cup {[BasePixel EXCEPT !.occ = o] : o \in {0, 10, 11, 100}}
  \cup {[BasePixel EXCEPT !.road = TRUE]}
  \cup {[BasePixel EXCEPT !.occ = 100, !.nbRoad = Fx(20)]}
  \cup {[BasePixel EXCEPT !.nbWater = a, !.nbRoad = b] : a, b \in NbSamples}

(***************************************************************************)
(* State and operations.                                                   *)
(***************************************************************************)
VARIABLES
  pc,       \* "load" while the script body runs, then "ready"
  weights,  \* the weights object
  px,       \* the datasets' content at the pixel followed
  shapes,   \* number of geometries in the drawing tools
  layers,   \* names of the map's layers, in order
  aoi,      \* argument of the latest run: "none", "default" or "drawn"
  runs,     \* run() invocations so far
  clicks,   \* presses of the Use AOI button so far
  src,      \* the latest run's source and derived rasters at the pixel
  score,    \* its five ordinal score rasters
  weighted, maxPossible, susceptibility, susClass

rasters == <<src, score, weighted, maxPossible, susceptibility, susClass>>

vars == <<pc, weights, px, shapes, layers, aoi, runs, clicks, rasters>>

Init ==
  /\ pc = "load"
  /\ \E h \in WeightChoices, p \in Pixels :
       /\ h = DefaultWeights \/ p \in CorePixels
       /\ weights = WeightTable[h]
       /\ px = p
  /\ shapes = 0
  /\ layers = <<>>
  /\ aoi = "none"
  /\ runs = 0
  /\ clicks = 0
  /\ src = <<>>
  /\ score = <<>>
  /\ weighted = <<>>
  /\ maxPossible = <<>>
  /\ susceptibility = <<>>
  /\ susClass = <<>>

\* run() without map.clear()
MapKeep(ls) == ls

\* map.clear()
MapClear(ls) == <<>>

Inside(kind) == IF kind = "default" THEN px.inDefault ELSE px.inDrawn

\* run(aoi)
Run(kind) ==
  /\ layers' = MapClear(layers) \o RunLayers
  /\ aoi' = kind
  /\ runs' = runs + 1
  /\ src' = Sources(px, Inside(kind))
  /\ score' = Scores(src')
  /\ weighted' = Weighted(weights, score')
  /\ maxPossible' = MaxPossible(weights)
  /\ susceptibility' = Divide(weighted', maxPossible')
  /\ susClass' = SusClass(susceptibility')

\* the script body up to the initial run
Load ==
  /\ pc = "load"
  /\ pc' = "ready"
  /\ IF ~useDrawnAOI
     THEN Run("default")
     ELSE UNCHANGED <<layers, aoi, runs, rasters>>
  /\ UNCHANGED <<weights, px, shapes, clicks>>

\* the Use AOI button's callback
UseAOI ==
  /\ pc = "ready"
  /\ clicks < MaxRuns
  /\ clicks' = clicks + 1
  /\ IF shapes = 0 THEN Run("default") ELSE Run("drawn")
  /\ UNCHANGED <<pc, weights, px, shapes>>

\* the user draws a geometry with the drawing tools
DrawShape ==
  /\ pc = "ready"
  /\ shapes < MaxShapes
  /\ shapes' = shapes + 1
  /\ UNCHANGED <<pc, weights, px, layers, aoi, runs, clicks, rasters>>

\* the user deletes the drawn geometries
ClearShapes ==
  /\ pc = "ready"
  /\ shapes > 0
  /\ shapes' = 0
  /\ UNCHANGED <<pc, weights, px, layers, aoi, runs, clicks, rasters>>

Next == Load \/ UseAOI \/ DrawShape \/ ClearShapes

Spec == Init /\ [][Next]_vars

(***************************************************************************)
(* Properties.                                                             *)
(***************************************************************************)
ran == runs > 0

\* indices of the rules whose condition holds
Matching(rules) ==
  {i \in 1..Len(rules) : rules[i].test.ok /\ rules[i].test.v # 0}

\* number of breakpoints strictly below v
Rank(v, breaks) == Cardinality({t \in breaks : Fx(t) < v})

Rising == <<1, 2, 3, 4, 5>>

Falling == <<5, 4, 3, 2, 1>>

\* the interval table applied to a numeric pixel: one condition holds and the
\* score is the one of the interval closed at its upper breakpoint
Reclassified(img, rules, sc, breaks, table) ==
  img.ok =>
    /\ sc.ok
    /\ sc.v \in 1..5
    /\ sc.v = table[Rank(img.v, breaks) + 1]
    /\ Cardinality(Matching(rules)) = 1

\* C1: each of the four continuous predictors is mapped to exactly one score
\* in 1..5 whatever its numeric value: none keeps the initial 0, no value
\* meets two where-conditions, and a value on a breakpoint gets the score of
\* the interval below it.
C1_Reclassification ==
  ran =>
    /\ Reclassified(src.slope, SlopeRules(src.slope), score.slopeScore,
                    SlopeBreaks, Rising)
    /\ Reclassified(src.roughness, RoughRules(src.roughness), score.roughScore,
                    RoughBreaks, Rising)
    /\ Reclassified(src.dtWater, DistWaterRules(src.dtWater), score.distWaterScore,
                    DistBreaks, Falling)
    /\ Reclassified(src.dtRoad, DistRoadRules(src.dtRoad), score.distRoadScore,
                    DistBreaks, Falling)

\* 50 m to water scored 5 and 500 m to a road scored 2, slope 10 scored 2
C1_Witness ==
  /\ ran
  /\ src.dtWater = Img(Fx(50)) /\ score.distWaterScore = Img(5)
  /\ src.dtRoad = Img(Fx(500)) /\ score.distRoadScore = Img(2)
  /\ src.slope = Img(Fx(10)) /\ score.slopeScore = Img(2)

ScoreValues ==
  {score.slopeScore.v, score.roughScore.v, score.lcScore.v,
   score.distWaterScore.v, score.distRoadScore.v}

NonNegative(w) ==
  /\ w.slope.sgn >= 0 /\ w.roughness.sgn >= 0 /\ w.landcover.sgn >= 0
  /\ w.distWater.sgn >= 0 /\ w.distRoad.sgn >= 0

FOne == FFromInt(1)

\* C2: with the five scores in 1..5 and no weight negative, the
\* susceptibility run() computes is defined and lies in [0,1].
C2_UnitRange ==
  (ran /\ ScoreValues \subseteq 1..5 /\ NonNegative(weights)) =>
    /\ susceptibility.ok
    /\ FLe(FZero, susceptibility.v)
    /\ FLe(susceptibility.v, FOne)

ClassBreaks == {D02, D04, D06, D08}

\* C3: every susceptibility in [0,1] gets exactly one class in 1..5, the
\* breakpoints 0.2, 0.4, 0.6, 0.8 belonging to the lower class, and none
\* keeps the initial class 0.
C3_Classification ==
  (ran /\ susceptibility.ok /\ FLe(FZero, susceptibility.v)
       /\ FLe(susceptibility.v, FOne)) =>
    /\ susClass.ok
    /\ susClass.v \in 1..5
    /\ susClass.v = 1 + Cardinality({t \in ClassBreaks : FGt(susceptibility.v, t)})
    /\ Cardinality(Matching(SusClassRules(susceptibility))) = 1

\* susceptibility exactly 0.2, classed 1
C3_Witness ==
  /\ ran
  /\ susceptibility = Img(D02)
  /\ susClass = Img(1)

SourceGap == ~src.dem.ok \/ ~src.worldCover.ok \/ ~src.gsw.ok

\* C4: where elevation, land cover or surface water is masked, the
\* susceptibility and its class are masked too.
C4_GapsStayMasked ==
  (ran /\ SourceGap) => (~susceptibility.ok /\ ~susClass.ok)

\* the land-cover table: tree, shrub, grass, crop, built-up, bare, snow/ice,
\* water, wetland, mangrove
LcTable ==
  [c \in {10, 20, 30, 40, 50, 60, 70, 80, 90, 95} |->
     CASE c = 10 -> 1 [] c \in {20, 30, 40} -> 3 [] c = 50 -> 4 [] c = 60 -> 5
       [] c \in {70, 80} -> 1 [] c \in {90, 95} -> 2]

\* C5: the five score rasters entering the weighted sum hold values in 1..5
\* only, the land-cover score following the lookup table for every class of
\* the layer (stated at the pixels where every source layer has data).
C5_ScoresInRange ==
  (ran /\ ~SourceGap) =>
    /\ ScoreValues \subseteq 1..5
    /\ src.worldCover.v \in DOMAIN LcTable =>
         score.lcScore.v = LcTable[src.worldCover.v]

OnMap(name) == \E i \in 1..Len(layers) : layers[i] = name

\* C6: with a negative weight nothing is computed: the map never holds a
\* susceptibility or class raster.
C6_BadWeightsRejected ==
  ~NonNegative(weights) =>
    /\ ~ran
    /\ ~OnMap("Susceptibility (0-1)")
    /\ ~OnMap("Susceptibility class")

PositiveSum(w) == NonNegative(w) /\ MaxPossible(w).sgn > 0

\* C7: with the five scores all equal to s and a weight vector of positive
\* sum, the susceptibility is exactly s/5 and the class is s.
C7_UniformScores ==
  \A s \in 1..5 :
    (ran /\ ScoreValues = {s} /\ PositiveSum(weights)) =>
      /\ susceptibility = Img(FLiteral(2 * s, 1))
      /\ susClass = Img(s)

Swap(rules, i) ==
  [k \in 1..Len(rules) |->
     IF k = i THEN rules[i + 1] ELSE IF k = i + 1 THEN rules[i] ELSE rules[k]]

Reverse(rules) == [k \in 1..Len(rules) |-> rules[Len(rules) + 1 - k]]

\* at most one rule applies, so the chain equals the lookup of that rule and
\* does not change when the steps are reversed or neighbours are exchanged
OrderFree(rules, result) ==
  /\ Cardinality(Matching(rules)) <= 1
  /\ result = WhereChain(Img(0), rules)
  /\ result = WhereChain(Img(0), Reverse(rules))
  /\ \A i \in 1..(Len(rules) - 1) : result = WhereChain(Img(0), Swap(rules, i))
  /\ result = IF Matching(rules) = {} THEN Img(0)
              ELSE Img(rules[CHOOSE i \in Matching(rules) : TRUE].value)

\* C8: in each where-chain the conditions exclude one another, so the result
\* is that of an order-independent lookup whatever the order of the steps.
C8_OrderIndependent ==
  ran =>
    /\ OrderFree(SlopeRules(src.slope), score.slopeScore)
    /\ OrderFree(RoughRules(src.roughness), score.roughScore)
    /\ OrderFree(DistWaterRules(src.dtWater), score.distWaterScore)
    /\ OrderFree(DistRoadRules(src.dtRoad), score.distRoadScore)
    /\ OrderFree(LcRules(src.worldCover), score.lcScore)
    /\ OrderFree(SusClassRules(susceptibility), susClass)

\* slope on the breakpoint 15, scored 2 by the one rule that applies
C8_Witness ==
  /\ ran
  /\ src.slope = Img(Fx(15))
  /\ score.slopeScore = Img(2)
  /\ Matching(SlopeRules(src.slope)) = {2}

\* C9: distance to water and distance to road are scored by one function of
\* the distance, which never rises with the distance, is 5 at distance 0
\* and is 1 above 500 m.
C9_DistanceScore ==
  ran =>
    /\ src.dtWater.v <= src.dtRoad.v => score.distWaterScore.v >= score.distRoadScore.v
    /\ src.dtRoad.v <= src.dtWater.v => score.distRoadScore.v >= score.distWaterScore.v
    /\ src.dtWater.v = 0 => score.distWaterScore.v = 5
    /\ src.dtRoad.v = 0 => score.distRoadScore.v = 5
    /\ src.dtWater.v > Fx(500) => score.distWaterScore.v = 1
    /\ src.dtRoad.v > Fx(500) => score.distRoadScore.v = 1

\* a water pixel (distance 0, score 5) more than 500 m from a road (score 1)
C9_Witness ==
  /\ ran
  /\ src.dtWater = Img(0) /\ score.distWaterScore = Img(5)
  /\ src.dtRoad.v > Fx(500) /\ score.distRoadScore = Img(1)

\* C10: after any runs the map holds the 16 layers of the latest run, each
\* name once; every press of the button starts one run, on the default AOI
\* when nothing is drawn and on the drawn geometry otherwise; the weights
\* never change.
C10_LayersOfLatestRun ==
  /\ [](ran => /\ layers = RunLayers
               /\ Len(layers) = 16
               /\ \A i, j \in 1..Len(layers) : layers[i] = layers[j] => i = j)
  /\ [](pc = "ready" => runs = clicks + 1)
  /\ [][clicks' # clicks =>
          /\ runs' = runs + 1
          /\ aoi' = IF shapes = 0 THEN "default" ELSE "drawn"]_vars
  /\ [][weights' = weights]_vars

\* the second press, made with a geometry drawn
C10_Witness ==
  /\ clicks = 2
  /\ runs = 3
  /\ aoi = "drawn"
  /\ Len(layers) = 16

=============================================================================
